---- MODULE Spec2Model ----
(***************************************************************************)
(* Model of the wifi-capture Remote-ID decoder.                            *)
(*                                                                         *)
(*   - the three pack decoders (BaseMessage, PositionVectorMessage,        *)
(*     SystemMessage) and the AnyMessage dispatcher, as operators over     *)
(*     byte sequences;                                                     *)
(*   - the capture loop of main.rs (capture_wifi_channel, process_packet,  *)
(*     parse_radiotap, parse_80211_mgt and its pack loop) as a state       *)
(*     machine.                                                            *)
(*                                                                         *)
(* A Rust slice is a TLA+ sequence; the code's 0-based data[k] is At(d,k). *)
(* A Rust panic (index or slice out of range, unwrap of Err, arithmetic    *)
(* overflow in a checked build) is the result Panic(..) of an operator and *)
(* the control state "panicked" of the state machine.                      *)
(***************************************************************************)
EXTENDS Integers, Sequences, FiniteSets, TLC

(***************************************************************************)
(* Bytes and fixed-width integers                                          *)
(***************************************************************************)
Pow2(n) == 2 ^ n

\* data[k], 0-based as in the source
At(data, k) == data[k + 1]

\* &data[a..b], 0-based half-open as in the source
Slice(data, a, b) == SubSeq(data, a + 1, b)

\* (b >> n) & (2^w - 1)
Bits(b, n, w) == (b \div Pow2(n)) % Pow2(w)

\* two's-complement reading of an unsigned value of the given width
ToSigned(v, width) == IF v >= Pow2(width - 1) THEN v - Pow2(width) ELSE v

U16LE(b0, b1) == b0 + 256 * b1
I16LE(b0, b1) == ToSigned(U16LE(b0, b1), 16)

\* i32::from_le_bytes: the top byte carries the sign
I32LE(b0, b1, b2, b3) == b0 + 256 * b1 + 65536 * b2 + 16777216 * ToSigned(b3, 8)

\* u32::from_le_bytes, kept as its low and high 16-bit halves (the value
\* low + 65536 * high can exceed the integers TLC computes with)
U32LE(b0, b1, b2, b3) == <<U16LE(b0, b1), U16LE(b2, b3)>>

\* mutant: the byte read as unsigned
I8Unsigned(b) == b

\* `b as i8`
I8(b) == ToSigned(b, 8)

(***************************************************************************)
(* Results: Result<T, MessageError>, or a panic                            *)
(***************************************************************************)
Ok(variant, msg) == [tag |-> "Ok", variant |-> variant, msg |-> msg]
Err(e) == [tag |-> "Err", err |-> e]
Panic(why) == [tag |-> "Panic", why |-> why]

InsufficientLength(expected, actual) ==
    [kind |-> "InsufficientLength", expected |-> expected, actual |-> actual]
InvalidUtf8 == [kind |-> "InvalidUtf8"]
UnknownMessageType(t) == [kind |-> "UnknownMessageType", t |-> t]

\* Option<T>
Some(v) == <<v>>
None == <<>>

(***************************************************************************)
(* Text: str::from_utf8, trim_end_matches('\0') and trim_end               *)
(***************************************************************************)
IsCont(b) == b >= 128 /\ b <= 191

\* Length of the well-formed UTF-8 sequence that starts at 1-based position
\* k of s, or 0 when none does (the table of core::str::from_utf8).
Utf8SeqLen(s, k) ==
    LET n == Len(s)
        b0 == s[k]
        c(j) == IF k + j <= n THEN s[k + j] ELSE 0
    IN  IF b0 <= 127 THEN 1
        ELSE IF b0 >= 194 /\ b0 <= 223
             THEN IF IsCont(c(1)) THEN 2 ELSE 0
        ELSE IF b0 = 224
             THEN IF c(1) >= 160 /\ c(1) <= 191 /\ IsCont(c(2)) THEN 3 ELSE 0
        ELSE IF (b0 >= 225 /\ b0 <= 236) \/ b0 = 238 \/ b0 = 239
             THEN IF IsCont(c(1)) /\ IsCont(c(2)) THEN 3 ELSE 0
        ELSE IF b0 = 237
             THEN IF c(1) >= 128 /\ c(1) <= 159 /\ IsCont(c(2)) THEN 3 ELSE 0
        ELSE IF b0 = 240
             THEN IF c(1) >= 144 /\ c(1) <= 191 /\ IsCont(c(2)) /\ IsCont(c(3))
                  THEN 4 ELSE 0
        ELSE IF b0 >= 241 /\ b0 <= 243
             THEN IF IsCont(c(1)) /\ IsCont(c(2)) /\ IsCont(c(3)) THEN 4 ELSE 0
        ELSE IF b0 = 244
             THEN IF c(1) >= 128 /\ c(1) <= 143 /\ IsCont(c(2)) /\ IsCont(c(3))
                  THEN 4 ELSE 0
        ELSE 0

RECURSIVE Utf8ValidFrom(_, _)
Utf8ValidFrom(s, k) ==
    IF k > Len(s) THEN TRUE
    ELSE LET w == Utf8SeqLen(s, k)
         IN  IF w = 0 THEN FALSE ELSE Utf8ValidFrom(s, k + w)

\* str::from_utf8(s).is_ok()
Utf8Valid(s) == Utf8ValidFrom(s, 1)

\* s.trim_end_matches('\0'): drops every trailing NUL character
RECURSIVE TrimEndNul(_)
TrimEndNul(s) ==
    IF Len(s) > 0 /\ s[Len(s)] = 0 THEN TrimEndNul(SubSeq(s, 1, Len(s) - 1)) ELSE s

\* Width in bytes of the White_Space character that ends s, or 0 when s
\* does not end with one (char::is_whitespace on the last character).
TrailingWsLen(s) ==
    LET n == Len(s)
        last == s[n]
        p1 == IF n >= 2 THEN s[n - 1] ELSE 0
        p2 == IF n >= 3 THEN s[n - 2] ELSE 0
    IN  IF n = 0 THEN 0
        ELSE IF (last >= 9 /\ last <= 13) \/ last = 32 THEN 1
        ELSE IF p1 = 194 /\ (last = 133 \/ last = 160) THEN 2
        ELSE IF p2 = 225 /\ p1 = 154 /\ last = 128 THEN 3
        ELSE IF p2 = 226 /\ p1 = 128
                /\ ((last >= 128 /\ last <= 138) \/ last = 168 \/ last = 169 \/ last = 175)
             THEN 3
        ELSE IF p2 = 226 /\ p1 = 129 /\ last = 159 THEN 3
        ELSE IF p2 = 227 /\ p1 = 128 /\ last = 128 THEN 3
        ELSE 0

\* s.trim_end(): drops every trailing whitespace character
RECURSIVE TrimEnd(_)
TrimEnd(s) ==
    LET w == TrailingWsLen(s)
    IN  IF w = 0 THEN s ELSE TrimEnd(SubSeq(s, 1, Len(s) - w))

(***************************************************************************)
(* BaseMessage (BasicId)                                                   *)
(***************************************************************************)
BaseMessageType == 0
BaseExpectedLength == 23

\* BaseMessage::from_bytes
BaseFromBytes(data) ==
    LET n == Len(data)
    IN  IF n < BaseExpectedLength
        THEN Err(InsufficientLength(BaseExpectedLength, n))
        ELSE LET byte0 == At(data, 0)
                 id_type == Bits(byte0, 4, 4)
                 ua_type == Bits(byte0, 0, 4)
                 uas_id_start == 1
             IN  IF uas_id_start + 20 > n THEN Panic("slice")
                 ELSE LET uas_id_bytes == Slice(data, uas_id_start, uas_id_start + 20)
                      IN  IF ~Utf8Valid(uas_id_bytes) THEN Err(InvalidUtf8)
                          ELSE LET uas_id == TrimEnd(TrimEndNul(uas_id_bytes))
                                   reserved_start == 21
                               IN  IF reserved_start + 3 > n THEN Panic("slice")
                                   ELSE Ok("Base",
                                           [id_type |-> id_type,
                                            ua_type |-> ua_type,
                                            uas_id |-> uas_id,
                                            reserved |-> Slice(data, reserved_start,
                                                               reserved_start + 3)])

(***************************************************************************)
(* PositionVectorMessage (LocationVector)                                  *)
(***************************************************************************)
PositionVectorMessageType == 1
PositionVectorExpectedLength == 23

\* the indices PositionVectorMessage::from_bytes reads, data[0] .. data[23]
PositionVectorReads == 0 .. 23

\* PositionVectorMessage::from_bytes
PositionVectorFromBytes(data) ==
    LET n == Len(data)
    IN  IF n < PositionVectorExpectedLength
        THEN Err(InsufficientLength(PositionVectorExpectedLength, n))
        ELSE IF \E k \in PositionVectorReads : k >= n THEN Panic("index")
        ELSE LET byte0 == At(data, 0)
                 byte18 == At(data, 18)
                 byte19 == At(data, 19)
                 byte22 == At(data, 22)
             IN  Ok("PositionVector",
                    [run_status |-> Bits(byte0, 4, 4),
                     reserved_flag |-> Bits(byte0, 3, 1) # 0,
                     height_type |-> Bits(byte0, 1, 2),
                     track_direction |-> Bits(byte0, 0, 1) # 0,
                     speed_multiplier |-> Bits(byte0, 0, 1) # 0,
                     track_angle |-> At(data, 1),
                     ground_speed |-> I8(At(data, 2)),
                     vertical_speed |-> I8(At(data, 3)),
                     latitude |-> I32LE(At(data, 4), At(data, 5), At(data, 6), At(data, 7)),
                     longitude |-> I32LE(At(data, 8), At(data, 9), At(data, 10), At(data, 11)),
                     pressure_altitude |-> I16LE(At(data, 12), At(data, 13)),
                     geometric_altitude |-> I16LE(At(data, 14), At(data, 15)),
                     ground_altitude |-> I16LE(At(data, 16), At(data, 17)),
                     vertical_accuracy |-> Bits(byte18, 4, 4),
                     horizontal_accuracy |-> Bits(byte18, 0, 4),
                     speed_accuracy |-> Bits(byte19, 0, 4),
                     timestamp |-> U16LE(At(data, 20), At(data, 21)),
                     timestamp_accuracy |-> Bits(byte22, 0, 4),
                     reserved |-> At(data, 23)])

(***************************************************************************)
(* SystemMessage                                                           *)
(***************************************************************************)
SystemMessageType == 4
SystemExpectedLength == 24

\* mutant: the length check against the mandatory part only
SystemLengthOkLoose(data) == Len(data) >= 19

\* the length check that opens SystemMessage::from_bytes
SystemLengthOk(data) == Len(data) >= SystemExpectedLength

\* classification_region = (byte0 >> 2) & 0x07
SystemClassification(byte0) == Bits(byte0, 2, 3)

\* reserved_bits = (byte0 >> 3) & 0x03
SystemReservedBits(byte0) == Bits(byte0, 3, 2)

\* what the decoder returns for a classification_region of 0 or above 3
SystemClassificationError == UnknownMessageType(1)

\* One optional field of `width` bytes at `offset`: present when
\* data.len() > offset + width - 1; the cursor moves only when it is.
OptPresent(data, offset, width) == Len(data) > offset + width - 1
OptNext(data, offset, width) ==
    IF OptPresent(data, offset, width) THEN offset + width ELSE offset
OptU16(data, offset) ==
    IF OptPresent(data, offset, 2)
    THEN Some(U16LE(At(data, offset), At(data, offset + 1))) ELSE None
OptU8(data, offset) ==
    IF OptPresent(data, offset, 1) THEN Some(At(data, offset)) ELSE None
OptU32(data, offset) ==
    IF OptPresent(data, offset, 4)
    THEN Some(U32LE(At(data, offset), At(data, offset + 1),
                    At(data, offset + 2), At(data, offset + 3)))
    ELSE None

\* mutant: the trailing field taken from the end of the input
SystemReservedFromEnd(data, offset) ==
    IF OptPresent(data, offset, 1) THEN Some(At(data, Len(data) - 1)) ELSE None

\* the trailing `reserved` field: Some(data[offset]) when data.len() > offset
SystemReserved(data, offset) == OptU8(data, offset)

\* SystemMessage::from_bytes
SystemFromBytes(data) ==
    LET n == Len(data)
    IN  IF ~SystemLengthOk(data)
        THEN Err(InsufficientLength(SystemExpectedLength, n))
        ELSE IF n = 0 THEN Panic("index")
        ELSE LET byte0 == At(data, 0)
                 coordinate_system == Bits(byte0, 5, 3)
                 reserved_bits == SystemReservedBits(byte0)
                 classification_region == SystemClassification(byte0)
             IN  IF classification_region = 0 \/ classification_region > 3
                 THEN Err(SystemClassificationError)
                 ELSE IF n < 9 THEN Panic("slice")
                 ELSE LET station_type == Bits(byte0, 0, 2)
                          latitude == I32LE(At(data, 1), At(data, 2), At(data, 3), At(data, 4))
                          longitude == I32LE(At(data, 5), At(data, 6), At(data, 7), At(data, 8))
                          o0 == 9
                          o1 == OptNext(data, o0, 2)
                          o2 == OptNext(data, o1, 1)
                          o3 == OptNext(data, o2, 2)
                          o4 == OptNext(data, o3, 2)
                          \* ua_category = data[o4], ua_level = data[o4 + 1]
                          o6 == o4 + 2
                      IN  IF o4 + 1 >= n THEN Panic("index")
                          ELSE IF ~(n > o6 + 1)
                          THEN Err(InsufficientLength(o6 + 2, n))
                          ELSE LET o7 == o6 + 2
                                   o8 == OptNext(data, o7, 4)
                               IN  Ok("System",
                                      [coordinate_system |-> coordinate_system,
                                       reserved_bits |-> reserved_bits,
                                       classification_region |-> classification_region,
                                       station_type |-> station_type,
                                       latitude |-> latitude,
                                       longitude |-> longitude,
                                       operation_count |-> OptU16(data, o0),
                                       operation_radius |-> OptU8(data, o1),
                                       altitude_upper |-> OptU16(data, o2),
                                       altitude_lower |-> OptU16(data, o3),
                                       ua_category |-> At(data, o4),
                                       ua_level |-> At(data, o4 + 1),
                                       station_altitude |-> U16LE(At(data, o6), At(data, o6 + 1)),
                                       timestamp |-> OptU32(data, o7),
                                       reserved |-> SystemReserved(data, o8)])

(***************************************************************************)
(* AnyMessage: the dispatcher                                              *)
(***************************************************************************)
\* mutant: the type read from the low nibble
MessageTypeOfLowNibble(byte0) == Bits(byte0, 0, 4)

\* message_type = (data[0] >> 4) & 0x0f
MessageTypeOf(byte0) == Bits(byte0, 4, 4)

\* The decoder AnyMessage::from_bytes hands the content to, by type nibble
\* ("None": no decoder is called).
DecoderFor(message_type) ==
    IF message_type = BaseMessageType THEN "Base"
    ELSE IF message_type = PositionVectorMessageType THEN "PositionVector"
    ELSE IF message_type = SystemMessageType THEN "System"
    ELSE "None"

\* AnyMessage::from_bytes: the decoder it calls ("None": none) and what it
\* returns
AnyDispatch(data) ==
    IF Len(data) = 0
    THEN [invoked |-> "None", result |-> Err(InsufficientLength(1, 0))]
    ELSE LET message_type == MessageTypeOf(At(data, 0))
             content == Slice(data, 1, Len(data))
             d == DecoderFor(message_type)
         IN  [invoked |-> d,
              result |->
                 IF d = "Base" THEN BaseFromBytes(content)
                 ELSE IF d = "PositionVector" THEN PositionVectorFromBytes(content)
                 ELSE IF d = "System" THEN SystemFromBytes(content)
                 ELSE Err(UnknownMessageType(message_type))]

AnyFromBytes(data) == AnyDispatch(data).result

(***************************************************************************)
(* State                                                                   *)
(***************************************************************************)
VARIABLES
    \* the capture loop
    pc,            \* "recv" | "process" | "radiotap" | "mgt" | "packs" | "done" |
                   \* "stopped" | "panicked" ("idle" when only a decoder runs)
    packet,        \* the frame rx.next() returned
    offset,        \* parse_radiotap: the field walk's offset
    radiotap,      \* parse_radiotap: the header read so far
    matched,       \* parse_80211_mgt: index of the element taken as Remote-ID, -1: none
    vendor_data,   \* parse_80211_mgt: the Remote-ID element's data
    count,         \* parse_80211_mgt: vendor_data[3]
    i,             \* parse_80211_mgt: the pack loop's index
    upload_data,   \* parse_80211_mgt: the record being built
    packs,         \* the packs sliced so far for this element, in order
    last_result,   \* what AnyMessage::from_bytes returned for the last pack
    fault,         \* why the process panicked ("" while it has not)
    nframes,       \* frames received so far
    \* a decoder applied to one input
    dinput,        \* the input bytes
    dwhich,        \* the decoder applied ("none" before the call)
    dinvoked,      \* the decoder AnyMessage::from_bytes called
    dresult        \* what the decoder returned

loopvars == <<pc, packet, offset, radiotap, matched, vendor_data, count, i, upload_data, packs, last_result,
              fault, nframes>>
decvars == <<dinput, dwhich, dinvoked, dresult>>
vars == <<pc, packet, offset, radiotap, matched, vendor_data, count, i, upload_data, packs, last_result,
          fault, nframes, dinput, dwhich, dinvoked, dresult>>

NoResult == [tag |-> "None"]
NoPacket == [len |-> 0]
NoRecord == [rid |-> <<>>, longitude |-> 0, latitude |-> 0]

(***************************************************************************)
(* Captured frames                                                         *)
(*                                                                         *)
(* A frame is its length, its radiotap bytes (data[2], the declared header *)
(* length, and a pattern for the other bytes), and what libwifi's          *)
(* parse_frame makes of the bytes after the header: an error, a frame that *)
(* is no beacon, or a beacon with its list of vendor-specific elements.    *)
(***************************************************************************)
\* frames rx.next() returns before the model stops receiving
MaxFrames == 2
\* most packs in one vendor element
MaxPacks == 2

\* the element id and OUI type parse_80211_mgt looks for
RemoteIdElementId == 221
RemoteIdOuiType == 13
\* frames shorter than this are dropped by process_packet
MinPacketLen == 100
\* the pack stride and width the pack loop slices with
PackStride == 25

\* The packs of the test frame of main.rs (tests::test_process_packet): a
\* BasicId, a LocationVector and a System pack, 25 bytes each.
TestBase ==
    <<1, 18, 49, 53, 56, 49, 70, 55, 70, 86, 67, 50, 53, 49, 65, 48, 48, 67,
      81, 50, 53, 67, 0, 0, 0>>
TestPositionVector ==
    <<17, 34, 181, 0, 0, 253, 29, 221, 24, 227, 57, 154, 73, 242, 8, 72, 8,
      210, 7, 59, 4, 238, 19, 10, 0>>
TestSystem ==
    <<65, 8, 0, 30, 221, 24, 0, 58, 154, 73, 1, 0, 0, 0, 0, 0, 0, 1, 70, 8,
      174, 206, 209, 11, 0>>

PackKinds == {"base", "base2", "pv", "pv2", "sys", "unknown", "badclass", "badutf8"}

\* 25 bytes of a pack of each kind: the three test packs, a BasicId pack
\* with another identity and a LocationVector pack with another position,
\* and three that AnyMessage::from_bytes refuses (type nibble 2;
\* classification_region 0; 0xFF in the identity)
PackBytes(kind) ==
    CASE kind = "base" -> TestBase
      [] kind = "base2" -> [TestBase EXCEPT ![3] = 50, ![21] = 32]
      [] kind = "pv" -> TestPositionVector
      [] kind = "pv2" -> [TestPositionVector EXCEPT ![6] = 1, ![9] = 255, ![10] = 2]
      [] kind = "sys" -> TestSystem
      [] kind = "unknown" -> [TestBase EXCEPT ![1] = 33]
      [] kind = "badclass" -> [TestSystem EXCEPT ![2] = 0]
      [] kind = "badutf8" -> [TestBase EXCEPT ![3] = 255]

\* a pack as a sender with pack size `size` lays it out
PackOfSize(kind, size) ==
    [k \in 1 .. size |-> IF k <= Len(PackBytes(kind)) THEN PackBytes(kind)[k] ELSE 0]

RECURSIVE Concat(_, _)
Concat(kinds, size) ==
    IF kinds = <<>> THEN <<>>
    ELSE PackOfSize(Head(kinds), size) \o Concat(Tail(kinds), size)

\* The data of a Remote-ID element: byte 0 the declared length, byte 2 the
\* pack size, byte 3 the pack count, then the packs; `cut` bytes are missing
\* at the end.
RidData(size, kinds, cut) ==
    LET full == <<(4 + size * Len(kinds)) % 256, 241, size, Len(kinds)>>
                    \o Concat(kinds, size)
    IN  SubSeq(full, 1, Len(full) - cut)

Element(id, oui, data) == [element_id |-> id, oui_type |-> oui, data |-> data]
RidElement(data) == Element(RemoteIdElementId, RemoteIdOuiType, data)
\* vendor elements that are not Remote-ID: another OUI type, another id
OtherElements == {Element(RemoteIdElementId, 4, <<0, 1, 2, 3>>),
                  Element(200, RemoteIdOuiType, <<0, 1, 2, 3>>)}

KindSeqs == UNION {[1 .. n -> PackKinds] : n \in 0 .. MaxPacks}
PackSizes == {24, 25}

Frame(len, hlen, rt, frame, vendor) ==
    [len |-> len, hlen |-> hlen, rt |-> rt, frame |-> frame, vendor |-> vendor]
Beacon(vendor) == Frame(201, 38, "plain", "beacon", vendor)

\* beacons whose only vendor element is a Remote-ID element
RidBeacons ==
    {Beacon(<<RidElement(RidData(size, kinds, cut))>>) :
        size \in PackSizes, kinds \in KindSeqs, cut \in {0, 1}}

\* beacons with no Remote-ID element, or one that is not the first element
OtherBeacons ==
    {Beacon(<<>>)}
    \cup {Beacon(<<o>>) : o \in OtherElements}
    \cup {Beacon(<<o, RidElement(RidData(PackStride, <<"base", "pv">>, 0))>>) :
            o \in OtherElements}
    \cup {Beacon(<<RidElement(RidData(PackStride, <<"base", "pv">>, 0)), o>>) :
            o \in OtherElements}

\* frames that differ in their length and radiotap header
RadiotapFrames ==
    {Frame(len, hlen, rt, frame, <<>>) :
        len \in {99, 100, 120}, hlen \in {8, 38, 100, 101, 255},
        rt \in {"plain", "channel", "signal"}, frame \in {"err", "other"}}

\* Most bytes of a vendor element's data: the element's length is one byte
\* (at most 255), and counts the 3 OUI bytes and the OUI type byte before
\* the data (in the test frame the element 0xdd has length 0x53 = 83 and
\* vendor_data is its last 79 bytes, 4 + 3 * 25).
ElementDataMax == 251

\* the data of a Remote-ID element that declares n packs and holds `len`
\* bytes, every pack an all-zero BasicId pack
LongData(n, len) == <<117, 241, PackStride, n>> \o [k \in 1 .. len - 4 |-> 0]

\* beacons with many packs: 9 packs fill 229 bytes; the longest element
\* holds 9 packs and 22 bytes more, whatever count it declares
LongBeacons ==
    {Beacon(<<RidElement(LongData(n, len))>>) :
        n \in {9, 10, 11, 255}, len \in {229, ElementDataMax}}

Frames == RidBeacons \cup OtherBeacons \cup RadiotapFrames \cup LongBeacons

\* packet[k]: byte 2 is the declared header length; the other bytes follow
\* the pattern: all zero; field type 0x12 (channel) everywhere; or 0x12 at 0
\* and field type 0x03 (signal) everywhere else
PacketAt(p, k) ==
    IF k = 2 THEN p.hlen
    ELSE CASE p.rt = "plain" -> 0
           [] p.rt = "channel" -> 18
           [] p.rt = "signal" -> IF k = 0 THEN 18 ELSE 3

(***************************************************************************)
(* parse_radiotap                                                          *)
(***************************************************************************)
\* the header before the walk (rate2 is the rate in units of 0.5)
NoRadiotap == [signal |-> 0, rate2 |-> 0, channel_freq |-> 0]

\* One iteration of the field walk at `off` (off < header_len): the header
\* and offset after it and whether the walk goes on, or a panic when it
\* indexes past the packet.
RadiotapField(p, off, hdr) ==
    IF off >= p.len THEN Panic("index")
    ELSE LET field_type == PacketAt(p, off)
             o == off + 1
         IN  IF field_type = 3
             THEN IF o >= p.len THEN Panic("index")
                  ELSE [tag |-> "Ok", go |-> TRUE, offset |-> o + 1,
                        hdr |-> [hdr EXCEPT !.signal = I8(PacketAt(p, o))]]
             ELSE IF field_type = 2
             THEN IF o >= p.len THEN Panic("index")
                  ELSE [tag |-> "Ok", go |-> TRUE, offset |-> o + 1,
                        hdr |-> [hdr EXCEPT !.rate2 = PacketAt(p, o)]]
             ELSE IF field_type = 18
             THEN IF o + 1 >= p.len THEN Panic("index")
                  ELSE [tag |-> "Ok", go |-> TRUE, offset |-> o + 4,
                        hdr |-> [hdr EXCEPT !.channel_freq =
                                    U16LE(PacketAt(p, o), PacketAt(p, o + 1))]]
             ELSE [tag |-> "Ok", go |-> FALSE, offset |-> o, hdr |-> hdr]

\* &data[header_len..]: the offset the 802.11 frame starts at, or a panic
RadiotapRemaining(p) ==
    IF p.hlen > p.len THEN Panic("slice") ELSE [tag |-> "Ok", start |-> p.hlen]

(***************************************************************************)
(* parse_80211_mgt                                                         *)
(***************************************************************************)
\* The test that takes a beacon as a Remote-ID beacon: the index of the
\* element taken (-1: none), or a panic.  The code looks at
\* vendor_specific[0] only.
LocateElement(vendor) ==
    IF Len(vendor) = 0 THEN Panic("index")
    ELSE IF At(vendor, 0).element_id = RemoteIdElementId
            /\ At(vendor, 0).oui_type = RemoteIdOuiType
         THEN [tag |-> "Ok", index |-> 0]
         ELSE [tag |-> "Ok", index |-> -1]

Builds == {"debug", "release"}

\* mutant: the arithmetic done in i8
U8Signed(v, build) ==
    IF v <= 127 THEN [tag |-> "Ok", v |-> v]
    ELSE IF build = "debug" THEN Panic("overflow")
    ELSE [tag |-> "Ok", v |-> v % 128]

\* A u8 operation: a checked build panics on overflow, an unchecked one wraps.
U8(v, build) ==
    IF v <= 255 THEN [tag |-> "Ok", v |-> v]
    ELSE IF build = "debug" THEN Panic("overflow")
    ELSE [tag |-> "Ok", v |-> v % 256]

\* ((25*i+4) as usize)..((25*i+29) as usize), computed in u8
PackRange(idx, build) ==
    LET m == U8(PackStride * idx, build)
    IN  IF m.tag = "Panic" THEN m
        ELSE LET lo == U8(m.v + 4, build)
                 hi == U8(m.v + 4 + PackStride, build)
             IN  IF lo.tag = "Panic" THEN lo
                 ELSE IF hi.tag = "Panic" THEN hi
                 ELSE [tag |-> "Ok", start |-> lo.v, end |-> hi.v]

\* &vendor_data[range]
SlicePack(data, range) ==
    IF range.start > range.end \/ range.end > Len(data) THEN Panic("slice")
    ELSE [tag |-> "Ok", pack |-> Slice(data, range.start, range.end)]

\* mutant: the identity of the first BasicId pack is kept
FoldKeepFirst(record, message) ==
    IF message.variant = "Base"
    THEN IF record.rid = <<>> THEN [record EXCEPT !.rid = message.msg.uas_id] ELSE record
    ELSE IF message.variant = "PositionVector"
    THEN [record EXCEPT !.longitude = message.msg.longitude,
                        !.latitude = message.msg.latitude]
    ELSE record

\* the match on the decoded message that folds it into upload_data
Fold(record, message) ==
    IF message.variant = "Base" THEN [record EXCEPT !.rid = message.msg.uas_id]
    ELSE IF message.variant = "PositionVector"
    THEN [record EXCEPT !.longitude = message.msg.longitude,
                        !.latitude = message.msg.latitude]
    ELSE record

\* AnyMessage::from_bytes(pack).unwrap()
Unwrap(result) == IF result.tag = "Ok" THEN result ELSE Panic("unwrap")

(***************************************************************************)
(* The capture loop                                                        *)
(***************************************************************************)
DecIdle ==
    /\ dinput = <<>>
    /\ dwhich = "none"
    /\ dinvoked = "None"
    /\ dresult = NoResult

Init ==
    /\ pc = "recv"
    /\ packet = NoPacket
    /\ offset = 0
    /\ radiotap = NoRadiotap
    /\ matched = -1
    /\ vendor_data = <<>>
    /\ count = 0
    /\ i = 0
    /\ upload_data = NoRecord
    /\ packs = <<>>
    /\ last_result = NoResult
    /\ fault = ""
    /\ nframes = 0
    /\ DecIdle

\* mutant: the record is kept from one frame to the next
ClearLocalsKeepRecord ==
    /\ offset' = 0
    /\ radiotap' = NoRadiotap
    /\ matched' = -1
    /\ vendor_data' = <<>>
    /\ count' = 0
    /\ i' = 0
    /\ UNCHANGED upload_data
    /\ packs' = <<>>
    /\ last_result' = NoResult

\* the locals of process_packet and its callees as they are before it runs
ClearLocals ==
    /\ offset' = 0
    /\ radiotap' = NoRadiotap
    /\ matched' = -1
    /\ vendor_data' = <<>>
    /\ count' = 0
    /\ i' = 0
    /\ upload_data' = NoRecord
    /\ packs' = <<>>
    /\ last_result' = NoResult

\* rx.next() returns Ok(packet)
RxNextOk ==
    /\ pc = "recv"
    /\ nframes < MaxFrames
    /\ \E p \in Frames : packet' = p
    /\ nframes' = nframes + 1
    /\ pc' = "process"
    /\ ClearLocals
    /\ UNCHANGED fault
    /\ UNCHANGED decvars

\* rx.next() returns Err: the loop breaks
RxNextErr ==
    /\ pc = "recv"
    /\ pc' = "stopped"
    /\ UNCHANGED <<packet, offset, radiotap, matched, vendor_data, count, i,
                   upload_data, packs, last_result, fault, nframes>>
    /\ UNCHANGED decvars

\* the panic of the process: nothing runs after it
PanicWith(why) ==
    /\ pc' = "panicked"
    /\ fault' = why

\* process_packet returns to the capture loop
Return ==
    /\ pc' = "done"
    /\ UNCHANGED fault

\* process_packet up to the field walk of parse_radiotap: the length test
\* and the read of the declared header length, data[2]
ProcessPacket ==
    /\ pc = "process"
    /\ UNCHANGED <<packet, nframes, offset, radiotap, matched, vendor_data, count,
                   i, packs, last_result, upload_data>>
    /\ UNCHANGED decvars
    /\ IF packet.len < MinPacketLen
       THEN Return
       ELSE pc' = "radiotap" /\ UNCHANGED fault

\* one iteration of the field walk of parse_radiotap
RadiotapStep ==
    /\ pc = "radiotap"
    /\ offset < packet.hlen
    /\ UNCHANGED <<packet, nframes, matched, vendor_data, count, i, packs,
                   last_result, upload_data>>
    /\ UNCHANGED decvars
    /\ LET f == RadiotapField(packet, offset, radiotap)
       IN  IF f.tag = "Panic"
           THEN PanicWith("radiotap") /\ UNCHANGED <<offset, radiotap>>
           ELSE /\ offset' = f.offset
                /\ radiotap' = f.hdr
                /\ pc' = IF f.go THEN "radiotap" ELSE "mgt"
                /\ UNCHANGED fault

\* The end of parse_radiotap (the slice of the remaining bytes) and
\* parse_80211_mgt up to the pack loop: parse_frame, the test of
\* vendor_specific[0] and the reads of the element's header
Parse80211Mgt ==
    /\ \/ pc = "mgt"
       \/ pc = "radiotap" /\ ~(offset < packet.hlen)
    /\ UNCHANGED <<packet, nframes, offset, radiotap, i, packs, last_result,
                   upload_data>>
    /\ UNCHANGED decvars
    /\ IF RadiotapRemaining(packet).tag = "Panic"
       THEN PanicWith("radiotap") /\ UNCHANGED <<matched, vendor_data, count>>
       ELSE IF packet.frame # "beacon"
       THEN Return /\ UNCHANGED <<matched, vendor_data, count>>
       ELSE LET found == LocateElement(packet.vendor)
            IN  IF found.tag = "Panic"
                THEN PanicWith("vendor_specific") /\ UNCHANGED <<matched, vendor_data, count>>
                ELSE IF found.index < 0
                THEN Return /\ UNCHANGED <<matched, vendor_data, count>>
                ELSE LET data == At(packet.vendor, found.index).data
                     IN  /\ matched' = found.index
                         /\ vendor_data' = data
                         /\ IF Len(data) < 4
                            THEN PanicWith("vendor_data") /\ UNCHANGED count
                            ELSE /\ count' = At(data, 3)
                                 /\ IF At(data, 3) = 0
                                    THEN Return
                                    ELSE pc' = "packs" /\ UNCHANGED fault

\* one iteration of the pack loop: slice pack i, decode it, unwrap, fold
PackStep ==
    /\ pc = "packs"
    /\ i < count
    /\ UNCHANGED <<packet, nframes, offset, radiotap, matched, vendor_data, count>>
    /\ UNCHANGED decvars
    /\ \E build \in Builds :
          LET range == PackRange(i, build)
              sl == IF range.tag = "Panic" THEN range ELSE SlicePack(vendor_data, range)
          IN  IF sl.tag = "Panic"
              THEN PanicWith(IF range.tag = "Panic" THEN "overflow" ELSE "pack_slice")
                   /\ UNCHANGED <<i, packs, last_result, upload_data>>
              ELSE LET result == AnyFromBytes(sl.pack)
                       message == Unwrap(result)
                   IN  /\ packs' = Append(packs, sl.pack)
                       /\ last_result' = result
                       /\ IF message.tag = "Panic"
                          THEN PanicWith(IF result.tag = "Panic" THEN "decoder" ELSE "unwrap")
                               /\ UNCHANGED <<i, upload_data>>
                          ELSE /\ upload_data' = Fold(upload_data, message)
                               /\ i' = i + 1
                               /\ IF i + 1 < count
                                  THEN pc' = "packs" /\ UNCHANGED fault
                                  ELSE Return

\* the capture loop logs the time and goes back to rx.next()
LogTime ==
    /\ pc = "done"
    /\ pc' = "recv"
    /\ UNCHANGED <<packet, offset, radiotap, matched, vendor_data, count, i,
                   upload_data, packs, last_result, fault, nframes>>
    /\ UNCHANGED decvars

Next ==
    \/ RxNextOk
    \/ RxNextErr
    \/ ProcessPacket
    \/ RadiotapStep
    \/ Parse80211Mgt
    \/ PackStep
    \/ LogTime

Spec == Init /\ [][Next]_vars

(***************************************************************************)
(* The decoders on their own: one input, one call                          *)
(***************************************************************************)
\* longest input tried
MaxLen == 27

\* bytes 1.. of an input: a run that starts at `seed` and steps by 3
Fill(seed, k) == (seed + 3 * (k - 1)) % 256

\* first content bytes tried: a valid classification (4: region 1, 12: region
\* 3), invalid ones (0, 65: region 0; 243: region 4), ASCII (65) and a byte no
\* UTF-8 text holds (243)
Seeds == {4, 12, 0, 65, 243}

MkInput(len, b0, seed) ==
    [k \in 1 .. len |-> IF k = 1 THEN b0 ELSE Fill(seed, k - 1)]

PatternInputs ==
    {MkInput(len, b0, seed) : len \in 0 .. MaxLen, b0 \in 0 .. 255, seed \in Seeds}

\* "DroneBase", the identity text of tests::test_valid_parsing
DroneBase == <<68, 114, 111, 110, 101, 66, 97, 115, 101>>

\* bytes the padding of an identity is made of: NUL, space, tab, and a
\* letter (no padding)
PadBytes == {0, 32, 9, 101}

\* 24-byte BasicId inputs as tests::test_valid_parsing and
\* tests::test_null_padding build them: the status byte, "DroneBase", 11
\* bytes of padding (8 equal bytes, then three of any kind), 3 reserved bytes
IdentityInputs ==
    {<<165>> \o DroneBase \o [k \in 1 .. 8 |-> fill] \o <<x, y, z>> \o <<254, 237, 202>> :
        fill \in {0, 32}, x \in PadBytes, y \in PadBytes, z \in PadBytes}

\* byte values at the boundaries of the signed and unsigned fields
BoundaryBytes == {0, 1, 127, 128, 255}

\* the single-byte fields and the most significant byte of each multi-byte
\* field of a LocationVector input
PvTopBytes == {0, 1, 2, 3, 7, 11, 13, 15, 17, 18, 19, 21, 22, 23}

\* 24-byte LocationVector inputs as tests::test_full_range_values builds
\* them: every field at a boundary (low bytes `lo`, top bytes `hi`; 0 and 128
\* give i32::MIN and i16::MIN, 255 and 127 give i32::MAX and i16::MAX)
BoundaryInputs ==
    {[k \in 1 .. 24 |-> IF (k - 1) \in PvTopBytes THEN hi ELSE lo] :
        lo \in BoundaryBytes, hi \in BoundaryBytes}

DecodeInputs == PatternInputs \cup IdentityInputs \cup BoundaryInputs

LoopIdle ==
    /\ pc = "idle"
    /\ packet = NoPacket
    /\ offset = 0
    /\ radiotap = NoRadiotap
    /\ matched = -1
    /\ vendor_data = <<>>
    /\ count = 0
    /\ i = 0
    /\ upload_data = NoRecord
    /\ packs = <<>>
    /\ last_result = NoResult
    /\ fault = ""
    /\ nframes = 0

DecInit ==
    /\ dinput \in DecodeInputs
    /\ dwhich = "none"
    /\ dinvoked = "None"
    /\ dresult = NoResult
    /\ LoopIdle

DecodeBase ==
    /\ dwhich = "none"
    /\ dwhich' = "Base"
    /\ dresult' = BaseFromBytes(dinput)
    /\ UNCHANGED <<dinput, dinvoked>>
    /\ UNCHANGED loopvars

DecodePositionVector ==
    /\ dwhich = "none"
    /\ dwhich' = "PositionVector"
    /\ dresult' = PositionVectorFromBytes(dinput)
    /\ UNCHANGED <<dinput, dinvoked>>
    /\ UNCHANGED loopvars

DecodeSystem ==
    /\ dwhich = "none"
    /\ dwhich' = "System"
    /\ dresult' = SystemFromBytes(dinput)
    /\ UNCHANGED <<dinput, dinvoked>>
    /\ UNCHANGED loopvars

DecodeAny ==
    /\ dwhich = "none"
    /\ dwhich' = "Any"
    /\ dinvoked' = AnyDispatch(dinput).invoked
    /\ dresult' = AnyFromBytes(dinput)
    /\ UNCHANGED dinput
    /\ UNCHANGED loopvars

DecNext == DecodeBase \/ DecodePositionVector \/ DecodeSystem \/ DecodeAny

SpecDecode == DecInit /\ [][DecNext]_vars

(***************************************************************************)
(* Properties of the decoders (checked under SpecDecode)                   *)
(***************************************************************************)
Decoded == dwhich # "none"
InputLen == Len(dinput)

\* the classification_region field of a System status byte: bits 4-2
RegionOf(b) == (b \div 4) % 8
ValidRegion(b) == RegionOf(b) >= 1 /\ RegionOf(b) <= 3

IsInsufficientLength(r) == r.tag = "Err" /\ r.err.kind = "InsufficientLength"

\* C2: every decoder returns a record or a typed MessageError for every
\* input of every length; none of them panics.
C2_NoDecoderPanics == Decoded => dresult.tag \in {"Ok", "Err"}

\* C3: BaseMessage::from_bytes and PositionVectorMessage::from_bytes return
\* Err(InsufficientLength(24, n)) for every input of n < 24 bytes.
C3_Short24 ==
    (dwhich \in {"Base", "PositionVector"} /\ InputLen < 24)
        => dresult = Err(InsufficientLength(24, InputLen))

\* C4: AnyMessage::from_bytes is a total function of the high nibble of byte
\* 0 of a non-empty pack: 0 calls only the BasicId decoder, 1 only the
\* LocationVector decoder, 4 only the System decoder, and a success carries
\* the matching variant; each other nibble fails with
\* UnknownMessageType(nibble) and no decoder is called.
C4_DispatchTotal ==
    (dwhich = "Any" /\ InputLen > 0) =>
        LET nibble == dinput[1] \div 16
            want == CASE nibble = 0 -> "Base"
                      [] nibble = 1 -> "PositionVector"
                      [] nibble = 4 -> "System"
                      [] OTHER -> "None"
        IN  /\ dinvoked = want
            /\ (dresult.tag = "Ok" => dresult.variant = want)
            /\ (want = "None" => dresult = Err(UnknownMessageType(nibble)))

\* C4 witness: a pack of an unknown type nibble (7) was dispatched and
\* refused.
C4_Witness ==
    /\ dwhich = "Any"
    /\ InputLen > 0
    /\ dinput[1] \div 16 = 7
    /\ dresult = Err(UnknownMessageType(7))
    /\ dinvoked = "None"

\* C5: a System input of sufficient length whose classification_region is 0
\* or above 3 fails with an error of its own, which is none of
\* UnknownMessageType, InsufficientLength and InvalidUtf8.
C5_ClassificationErrorDistinct ==
    (dwhich = "System" /\ InputLen >= SystemExpectedLength /\ ~ValidRegion(dinput[1]))
        => /\ dresult.tag = "Err"
           /\ dresult.err.kind \notin
                  {"UnknownMessageType", "InsufficientLength", "InvalidUtf8"}

\* the optional fields of a System record an input of n bytes has room for
SystemFits(n) ==
    [operation_count |-> n >= 11, operation_radius |-> n >= 12,
     altitude_upper |-> n >= 14, altitude_lower |-> n >= 16,
     timestamp |-> n >= 24, reserved |-> n >= 25]
OptionalFields == DOMAIN SystemFits(0)

\* the System decoder's contract with a minimum input length of `min`
SystemMinimumIs(min) ==
    dwhich = "System" =>
        /\ IsInsufficientLength(dresult) => InputLen < min
        /\ (InputLen >= min /\ ValidRegion(dinput[1])) =>
              /\ dresult.tag = "Ok"
              /\ \A f \in OptionalFields :
                    (dresult.msg[f] # None) <=> SystemFits(InputLen)[f]

\* C6 as stated: the System decoder's minimum input length is 19 bytes.
C6_Minimum19 == SystemMinimumIs(19)

\* C6 amended: the System decoder's minimum input length is 24 bytes: an
\* input of 24 bytes or more with a valid classification_region decodes to a
\* record whose optional fields that do not fit are absent, and
\* InsufficientLength is returned only, and always, below 24 bytes.
C6_Minimum24 ==
    /\ SystemMinimumIs(24)
    /\ (dwhich = "System" /\ InputLen < 24) => IsInsufficientLength(dresult)

\* C6 witness: a 24-byte System input decoded, its trailing reserved field
\* absent.
C6_Witness ==
    /\ dwhich = "System"
    /\ InputLen = 24
    /\ dresult.tag = "Ok"
    /\ dresult.msg.reserved = None
    /\ dresult.msg.timestamp # None

\* C7: when a is a prefix of an accepted System input b and a is accepted
\* too, every optional field present in the decode of a is present with the
\* same value in the decode of b; and the decoder reads no index at or
\* beyond the input length (it does not panic), whatever the length.
C7_PrefixMonotonic ==
    dwhich = "System" =>
        /\ dresult.tag # "Panic"
        /\ dresult.tag = "Ok" =>
              \A m \in 0 .. InputLen :
                  LET a == SystemFromBytes(SubSeq(dinput, 1, m))
                  IN  /\ a.tag # "Panic"
                      /\ a.tag = "Ok" =>
                            \A f \in OptionalFields :
                                a.msg[f] # None => dresult.msg[f] = a.msg[f]

\* C7 witness: a 26-byte System input decoded whose 25-byte prefix decodes
\* too, with every optional field present.
C7_Witness ==
    /\ dwhich = "System"
    /\ InputLen = 26
    /\ dresult.tag = "Ok"
    /\ LET a == SystemFromBytes(SubSeq(dinput, 1, 25))
       IN  a.tag = "Ok" /\ \A f \in OptionalFields : a.msg[f] # None

\* the 20 identity bytes of a BasicId input, data[1..21]
IdentityOf(data) == Slice(data, 1, 21)

\* s ends with a NUL or a whitespace character
EndsWithPadding(s) == Len(s) > 0 /\ (s[Len(s)] = 0 \/ TrailingWsLen(s) > 0)

\* s without its whole trailing run of NUL and whitespace characters
RECURSIVE StripPadding(_)
StripPadding(s) ==
    IF Len(s) = 0 THEN s
    ELSE IF s[Len(s)] = 0 THEN StripPadding(SubSeq(s, 1, Len(s) - 1))
    ELSE IF TrailingWsLen(s) > 0 THEN StripPadding(SubSeq(s, 1, Len(s) - TrailingWsLen(s)))
    ELSE s

\* C13: for an input of 24 bytes or more, BaseMessage::from_bytes fails with
\* InvalidUtf8 exactly when the 20 identity bytes are not valid text, and
\* otherwise returns as uas_id the identity without its whole trailing run of
\* NUL and whitespace characters, in whatever order they are mixed: the
\* uas_id never ends with a NUL or a whitespace character.
C13_PaddingStripped ==
    (dwhich = "Base" /\ InputLen >= 24) =>
        LET id == IdentityOf(dinput)
        IN  /\ (dresult = Err(InvalidUtf8)) <=> ~Utf8Valid(id)
            /\ Utf8Valid(id) =>
                  /\ dresult.tag = "Ok"
                  /\ dresult.msg.uas_id = StripPadding(id)
                  /\ ~EndsWithPadding(dresult.msg.uas_id)

\* byte k (0: least significant) of the two's-complement encoding of v
ByteOf(v, k) == (v \div (256 ^ k)) % 256

\* v is the little-endian two's-complement value of the n bytes at data[at..]
IsSignedLE(v, data, at, n) ==
    /\ \A k \in 0 .. n - 1 : ByteOf(v, k) = At(data, at + k)
    /\ (v \div (256 ^ (n - 1))) \in -128 .. 127

\* v is the little-endian unsigned value of the n bytes at data[at..]
IsUnsignedLE(v, data, at, n) ==
    /\ \A k \in 0 .. n - 1 : ByteOf(v, k) = At(data, at + k)
    /\ (v \div (256 ^ (n - 1))) \in 0 .. 255

C16_FlagsIndependent ==
    (dwhich = "PositionVector" /\ dresult.tag = "Ok") =>
        /\ dresult.msg.track_direction = (Bits(dinput[1], 1, 1) = 1)
        /\ dresult.msg.speed_multiplier = (Bits(dinput[1], 0, 1) = 1)

\* status bytes that agree outside the `w` bits from bit `n` up
SameOutside(a, b, n, w) ==
    /\ a % Pow2(n) = b % Pow2(n)
    /\ a \div Pow2(n + w) = b \div Pow2(n + w)

\* C17: in SystemMessage::from_bytes reserved_bits is bits 6-5 and
\* classification_region bits 4-2 of the status byte, and the two do not
\* overlap: a status byte that differs from the decoded one only in the
\* classification bits decodes to the same reserved_bits, and one that
\* differs only in the reserved bits to the same classification_region.
C17_StatusFieldsDisjoint ==
    (dwhich = "System" /\ dresult.tag = "Ok") =>
        /\ dresult.msg.reserved_bits = Bits(dinput[1], 5, 2)
        /\ dresult.msg.classification_region = Bits(dinput[1], 2, 3)
        /\ \A c \in 0 .. 255 :
              LET other == SystemFromBytes([dinput EXCEPT ![1] = c])
              IN  other.tag = "Ok" =>
                    /\ SameOutside(c, dinput[1], 2, 3) =>
                          other.msg.reserved_bits = dresult.msg.reserved_bits
                    /\ SameOutside(c, dinput[1], 5, 2) =>
                          other.msg.classification_region =
                              dresult.msg.classification_region

(***************************************************************************)
(* Properties of the capture loop (checked under Spec)                     *)
(***************************************************************************)
\* a Remote-ID element has been taken from the current frame
Located == matched >= 0

\* the declared pack size S = data[2] and pack count N = data[3]
DeclaredSize == vendor_data[3]
DeclaredCount == vendor_data[4]

\* the element's data is too short for its header or for its N packs of S bytes
ElementShort ==
    Len(vendor_data) < 4 \/ Len(vendor_data) < 4 + DeclaredCount * DeclaredSize

\* C1: a pack's decode failure is local: after AnyMessage::from_bytes has
\* failed on a pack, the pack loop and the capture loop go on (the process
\* has not aborted).
C1_DecodeFailureLocal ==
    (Located /\ last_result.tag = "Err") => pc # "panicked"

\* C8: an element whose data is shorter than 4 bytes or than 4 + N*S bytes
\* ends with a bounds error for that element; no index or slice beyond the
\* data faults.
C8_BoundsValidated ==
    (Located /\ ElementShort) => fault \notin {"vendor_data", "pack_slice"}

\* C9: an element with data of at least 4 + N*S bytes yields exactly N
\* packs, the i-th being bytes [4 + i*S, 4 + i*S + S) of the data, for any S.
C9_PacksBySize ==
    (Located /\ ~ElementShort) =>
        /\ fault # "pack_slice"
        /\ \A k \in 1 .. Len(packs) :
              packs[k] = Slice(vendor_data, 4 + (k - 1) * DeclaredSize,
                               4 + k * DeclaredSize)
        /\ pc = "done" => Len(packs) = DeclaredCount

\* the first element in list order with element id 221 and OUI type 13
\* (-1: none)
FirstRemoteId(vendor) ==
    LET hits == {k \in 1 .. Len(vendor) :
                    vendor[k].element_id = 221 /\ vendor[k].oui_type = 13}
    IN  IF hits = {} THEN -1
        ELSE (CHOOSE k \in hits : \A j \in hits : k <= j) - 1

\* C10: for every list of vendor elements the locator takes the first
\* element with id 221 and OUI type 13; with none, the frame is skipped
\* without a fault.
C10_FirstMatchTaken ==
    (packet.len >= MinPacketLen /\ packet.frame = "beacon") =>
        /\ fault # "vendor_specific"
        /\ pc \in {"packs", "done"} => matched = FirstRemoteId(packet.vendor)

\* C11: a frame of at least 100 bytes whose declared radiotap header length
\* exceeds the frame, or whose field walk would read beyond the frame, ends
\* with an error for that frame: parse_radiotap does not fault, and the
\* capture loop goes on to the next frame.
C11_RadiotapFailsClosed ==
    packet.len >= MinPacketLen => fault # "radiotap"

\* the last pack sliced so far that decoded to the given variant (0: none)
LastDecoded(variant) ==
    LET hits == {k \in 1 .. Len(packs) :
                    /\ AnyFromBytes(packs[k]).tag = "Ok"
                    /\ AnyFromBytes(packs[k]).variant = variant}
    IN  IF hits = {} THEN 0 ELSE CHOOSE k \in hits : \A j \in hits : j <= k

\* C12: while and after the packs of a Remote-ID element are processed in
\* order, the record's identity is the uas_id of the last BasicId pack
\* decoded (empty with none) and its latitude and longitude are those of the
\* last LocationVector pack decoded (0 with none); System packs change
\* nothing.
C12_RecordFromLastPacks ==
    Located =>
        LET b == LastDecoded("Base")
            v == LastDecoded("PositionVector")
        IN  /\ upload_data.rid =
                   IF b = 0 THEN <<>> ELSE AnyFromBytes(packs[b]).msg.uas_id
            /\ upload_data.latitude =
                   IF v = 0 THEN 0 ELSE AnyFromBytes(packs[v]).msg.latitude
            /\ upload_data.longitude =
                   IF v = 0 THEN 0 ELSE AnyFromBytes(packs[v]).msg.longitude

\* C12 witness: an element of two packs, a BasicId then a LocationVector,
\* has been processed and the record combines the identity of the one with
\* the position of the other.
C12_Witness ==
    /\ pc = "done"
    /\ Len(packs) = 2
    /\ LastDecoded("Base") = 1
    /\ LastDecoded("PositionVector") = 2
    /\ upload_data.rid = AnyFromBytes(packs[1]).msg.uas_id
    /\ upload_data.rid # <<>>
    /\ upload_data.latitude = AnyFromBytes(packs[2]).msg.latitude
    /\ upload_data.latitude # 0

\* the record the first n packs of an element's data fold to, from the
\* empty record
RECURSIVE RecordAfter(_, _)
RecordAfter(data, n) ==
    IF n = 0 THEN NoRecord
    ELSE Fold(RecordAfter(data, n - 1),
              AnyFromBytes(Slice(data, 4 + PackStride * (n - 1),
                                 4 + PackStride * (n - 1) + PackStride)))

\* C15: frames are processed statelessly: the record of a frame starts
\* empty and, while and after its packs are processed, is a function of the
\* bytes of that frame alone (of the data of its first vendor element and
\* the number of packs folded), whatever frames were processed before it.
C15_Stateless ==
    /\ pc \in {"process", "radiotap", "mgt"} => upload_data = NoRecord
    /\ (pc \in {"packs", "done"} /\ ~Located) => upload_data = NoRecord
    /\ (pc \in {"packs", "done"} /\ Located) =>
          upload_data = RecordAfter(packet.vendor[1].data, i)

\* C15 witness: the second frame received is a beacon with a LocationVector
\* pack and no BasicId pack, and its record has a position and no identity.
C15_Witness ==
    /\ nframes = 2
    /\ pc = "done"
    /\ Located
    /\ i = 2
    /\ upload_data.rid = <<>>
    /\ upload_data.latitude # 0

====
